---------------------------- MODULE Spec2Model ----------------------------
(***************************************************************************)
(* Model of the record search of python-haystack (haystack/abouchet.py):   *)
(* StructFinder.find_struct / find_struct_in / loadAt, VerboseStructFinder, *)
(* and the entry points _search, search_struct_mem, show_dumpname and      *)
(* refresh; and of haystack/allocators/win32/winheapwalker.py:             *)
(* WinHeapWalker.get_user_allocations / get_free_chunks / _set_chunk_lists *)
(* and list_used_mappings; WinHeapFinder._find_heap / list_heap_walkers.   *)
(*                                                                         *)
(* A memory handler is a sequence of disjoint regions [start, end).  The   *)
(* content of the memory is not modelled byte by byte: what the search     *)
(* sees of it is, for every address it loads, whether the read fails and   *)
(* whether the decoded record validates.  That answer is chosen the first  *)
(* time an address is loaded and kept in mem, so that a second search of   *)
(* the same handler sees the same memory.                                  *)
(***************************************************************************)
EXTENDS Integers, Sequences, FiniteSets, TLC

\* ------------------------------------------------------------------ bounds
\* Number of regions of the memory handler.
MaxRegions == 2
\* Length of a region, in pointer-width words.
RegionWords == 4
\* Largest positive maxNum a caller passes.
MaxNum == 2
\* Chunks of one heap, over all the sets the validator walks.
MaxChunks == 3
\* Queries made on one heap walker, calls made on one heap finder.
MaxCalls == 2
\* Segments of one heap.
MaxSegments == 2
\* Candidate addresses and layouts of one memory that hold the heap signature.
MaxSignatures == 2

\* ------------------------------------------------------- program constants
\* plen = ctypes.sizeof(ctypes.c_void_p): the pointer width (32-bit target).
plen == 4
\* structlen = ctypes.sizeof(structType): a record of two words.
structlen == 8
\* sublen = ctypes.sizeof(self._heap_module.HEAP_ENTRY): the chunk header.
HEAP_ENTRY_size == 8
\* The step of "for addr in range(mapping.start, mapping.end, 0x1000)".
PageSize == 4096

\* ---------------------------------------------------------------- inputs
\* Distance between the starts of two consecutive regions: the regions are
\* disjoint and separated by unmapped gaps.
Stride == (RegionWords + 4) * plen
\* A region starts on a word boundary (skew 0) or two bytes after one.
Skews == {0, 2}
RegionIds == 1..MaxRegions
\* The memory handler whose regions start skew bytes after a word boundary.
Handler(skew) ==
    [i \in RegionIds |->
        [start |-> i * Stride + skew,
         end   |-> i * Stride + skew + RegionWords * plen]]
\* maxNum values: -1 (documented as unlimited) and 1..MaxNum.
MaxNums == {-1} \cup (1..MaxNum)
\* --------------------------------------------------------------- state
VARIABLES
    mappings,        \* the memory handler: sequence of regions
    heap,            \* index of the region get_heap() returns
    mem,             \* address -> "valid" | "invalid" | "ioerror", as loaded so far
    pc,              \* "idle" | "find_struct" | "find_struct_in" | "loadAt" |
                     \* "done" | "error"
    call,            \* the entry point and its arguments
    targetMappings,  \* StructFinder.targetMappings: sequence of region indexes
    hintOffset,      \* find_struct's hintOffset
    maxNum,          \* find_struct's maxNum
    verbose,         \* TRUE for a VerboseStructFinder
    mi,              \* position in targetMappings of find_struct's loop
    start,           \* find_struct_in's start
    offset,          \* find_struct_in's loop variable
    inner,           \* find_struct_in's outputs
    outputs,         \* find_struct's outputs
    examined,        \* every (perimeter position, region, offset) passed to loadAt
    update_i,        \* VerboseStructFinder._update_i
    err,             \* the exception that ended the call, or "none"
    plain,           \* result of the StructFinder run a verbose run repeats
    memoryMap,       \* show_dumpname / refresh: index of the region of the address
    address,         \* show_dumpname / refresh: the address to load
    rtype,           \* show_dumpname / refresh: the return format
    shown,           \* what show_dumpname returned / refresh printed
    dump,            \* the heap as the validator walks it: FrontEndHeapType,
                     \* virtual allocations, backend and frontend chunks
    segments,        \* the heap's segments: (start, LastValidEntry) pairs
    walker,          \* the WinHeapWalker's fields
    walked,          \* how often each walk of the validator was run
    calls,           \* the queries answered so far, with what they returned
    used,            \* what list_used_mappings returned
    image,           \* the process memory the heap finder scans: where a heap
                     \* signature is, and which of these validate as a HEAP
    hfinder,         \* the WinHeapFinder's fields
    probes,          \* what the finder did so far: scans made, candidates
                     \* handed to the validator
    heapsegs,        \* heap address -> what get_segment_list gives for it
    returns          \* the list_heap_walkers calls so far, with their outcome

\* The variables of show_dumpname and refresh.
loadVars == <<memoryMap, address, rtype, shown>>

\* The variables of the search.
finderVars == <<mappings, heap, mem, pc, call, targetMappings, hintOffset,
                maxNum, verbose, mi, start, offset, inner, outputs, examined,
                update_i, err, plain>>

\* The variables of the heap walker.
walkerVars == <<dump, segments, walker, walked, calls, used>>

\* The variables of the heap finder.
heapFinderVars == <<image, hfinder, probes, heapsegs, returns>>

vars == <<finderVars, loadVars, walkerVars, heapFinderVars>>

\* ------------------------------------------------------------- helpers
\* The elements of a sequence.
Range(seq) == {seq[k] : k \in DOMAIN seq}

\* IMemoryMapping.__contains__: start <= address < end.
InMapping(a, m) == m.start <= a /\ a < m.end

\* len(memoryMap)
MapLen(m) == m.end - m.start

\* mappings.get_mapping_for_address(addr): the index of the region holding
\* addr, or 0 (a false value) when no region holds it.
get_mapping_for_address(maps, a) ==
    IF \E i \in DOMAIN maps : InMapping(a, maps[i])
    THEN CHOOSE i \in DOMAIN maps : InMapping(a, maps[i])
    ELSE 0

\* mappings.is_valid_address_value(addr): the index of the region holding
\* addr, or 0 (a false value) when the address is not accessible.
is_valid_address_value(maps, a) == get_mapping_for_address(maps, a)

\* A search perimeter: a non-empty list of distinct regions, in any order.
Perimeters ==
    {s \in UNION {[1..k -> RegionIds] : k \in 1..MaxRegions} :
        \A a, b \in DOMAIN s : a # b => s[a] # s[b]}

\* The sequence 1..n of all region indexes: the handler used as a perimeter.
AllRegions == [i \in RegionIds |-> i]

\* Hint addresses a caller passes: none, a small relative offset, addresses
\* inside each region, and an address in no region.
Hints(maps) ==
    {0, 6, (MaxRegions + 1) * Stride}
    \cup {maps[i].start + 1 : i \in DOMAIN maps}
    \cup {maps[i].start + plen + 1 : i \in DOMAIN maps}

\* Addresses a caller asks show_dumpname or refresh to load: the hints, and
\* the last word of each region, where a record of two words does not fit.
LoadAddrs(maps) == Hints(maps) \cup {maps[i].end - plen : i \in DOMAIN maps}

\* The return formats modelled: the python pair and the text form.
RTypes == {"python", "string"}

\* ------------------------------------------------------- the heap's content

\* A chunk is a pair (addr, size); a virtual allocation block is a triple
\* (addr, commit size, reserve size).
ChunkAddrs == {4 * HEAP_ENTRY_size, 5 * HEAP_ENTRY_size}

ChunkSizes == {0, HEAP_ENTRY_size, 2 * HEAP_ENTRY_size}

Chunks == ChunkAddrs \X ChunkSizes

\* The sets of at most k chunks.
KSubsets(k) == {c \in SUBSET Chunks : Cardinality(c) <= k}

\* HEAP.FrontEndHeapType: 0 (backend only), 1 (lookaside lists), 2 (LFH),
\* and one value that is none of these.
FrontEndHeapTypes == 0 .. 3

\* A heap with nothing in it.
EmptyDump ==
    [FrontEndHeapType |-> 0, vallocs |-> {}, chunks |-> {}, free_chunks |-> {},
     front_allocs |-> {}, front_free_chunks |-> {}]

\* A heap: the virtual allocation blocks, the backend's committed and free
\* chunks with their header, the frontend's allocated and free chunks.
Dump(t, v, cc, cf, aa, fa) ==
    [FrontEndHeapType |-> t,
     vallocs |-> {<<c[1], c[2], c[2]>> : c \in v},
     chunks |-> cc, free_chunks |-> cf,
     front_allocs |-> aa, front_free_chunks |-> fa]

\* Where a segment can start, in a handler maps: at the start of a region or
\* one word into it (the segment is read there, so the address is mapped).
SegmentStarts(maps) ==
    UNION {{maps[i].start, maps[i].start + plen} : i \in DOMAIN maps}

\* Where LastValidEntry can point: into a region, to its end, or past it
\* into the unmapped gap.
SegmentEnds(maps) ==
    UNION {{maps[i].start + plen, maps[i].end, maps[i].end + plen} :
              i \in DOMAIN maps}

\* A segment spans the addresses from where it starts up to LastValidEntry,
\* which lies after the start.
Segments(maps) ==
    {[_orig_address_ |-> a, LastValidEntry |-> e] :
        <<a, e>> \in {x \in SegmentStarts(maps) \X SegmentEnds(maps) :
                        x[1] < x[2]}}

\* The segment lists of a heap: one to MaxSegments segments.
SegmentLists(maps) ==
    UNION {[1..k -> Segments(maps)] : k \in 1..MaxSegments}

\* "for bits in [32, 64]": the layouts, in the order they are tried.
Layouts == <<32, 64>>

\* self._cpu[bits]['signature_offset']: where the layout has HEAP.Signature.
SignatureOffset(bits) == bits \div 4

\* The lengths of the regions a heap finder scans: a region that ends right
\* after the signature of the 32-bit layout, one page, two pages.
RegionLengths == {SignatureOffset(32) + 4, PageSize, 2 * PageSize}

\* The memory handler of a process whose regions have the lengths lens; the
\* regions are ordered and lie apart.
FinderHandler(lens) ==
    [i \in RegionIds |->
        [start |-> 4 * i * PageSize,
         end   |-> 4 * i * PageSize + lens[i]]]

\* range(mapping.start, mapping.end, 0x1000)
Candidates(m) ==
    {m.start + k * PageSize : k \in 0 .. ((m.end - m.start - 1) \div PageSize)}

\* The candidates of a handler with the layouts to try: (addr, bits).
Slots(maps) ==
    UNION {Candidates(maps[i]) \X Range(Layouts) : i \in DOMAIN maps}

\* The HEAP record read at addr lies inside the region m.
HeapFits(m, addr) == m.start <= addr /\ addr + PageSize <= m.end

\* A memory without any heap signature.
EmptyImage == [signed |-> {}, valid |-> {}]

\* The memories of a handler: at most MaxSignatures candidates hold the heap
\* signature at the offset of their layout, and some of those that have
\* room for a HEAP record pass the validator.
Images(maps) ==
    UNION {{[signed |-> sg, valid |-> v] :
               v \in SUBSET {x \in sg : \E i \in DOMAIN maps :
                                          HeapFits(maps[i], x[1])}} :
           sg \in {x \in SUBSET Slots(maps) : Cardinality(x) <= MaxSignatures}}

\* The span of a segment that starts with a region and ends with a region.
SegmentSpans(maps) ==
    {[_orig_address_ |-> maps[i].start, LastValidEntry |-> maps[j].end] :
        <<i, j>> \in {x \in (DOMAIN maps) \X (DOMAIN maps) : x[1] <= x[2]}}

\* What get_segment_list gives for one heap: it fails, or the heap has one
\* segment.
HeapSegments(maps) ==
    {[fails |-> TRUE, list |-> <<>>]} \cup
    {[fails |-> FALSE, list |-> <<sg>>] : sg \in SegmentSpans(maps)}

\* A field that is None, and a field that holds a set.
None == [some |-> FALSE, v |-> {}]

Some(chunks) == [some |-> TRUE, v |-> chunks]

\* ------------------------------------------------------- the search code
\* StructFinder.__init__: targetMappings, or the whole handler when the
\* caller left it at None (given = FALSE).
StructFinder_init(given, tm) == IF given THEN tm ELSE AllRegions

\* Mutant: the one-region list is taken for an empty perimeter, and the search
\* goes "everywhere".
SearchPerimeter_everywhere(fullscan, hint, m, heapIdx) ==
    IF ~fullscan /\ hint # 0 THEN <<m>> ELSE AllRegions

\* _search's perimeter for a hint that lies in region m (0: in no region):
\* every region for a full scan, else the list of the hint's region, else the
\* list of the heap region; an empty list would be replaced by every region.
SearchPerimeter(fullscan, hint, m, heapIdx) ==
    IF fullscan THEN AllRegions
    ELSE LET tm == IF hint # 0 THEN <<m>> ELSE <<heapIdx>>
         IN  IF Len(tm) = 0 THEN AllRegions ELSE tm

\* Mutant: the hint is used as it comes, without the alignment.
ScanStart_unaligned(m, hint) ==
    IF InMapping(hint, m) THEN hint
    ELSE IF hint # 0 /\ hint < m.end - m.start
         THEN m.start + hint
         ELSE m.start

\* find_struct_in, "alignement": where the scan of region m starts.
ScanStart(m, hint) ==
    IF InMapping(hint, m) THEN hint - (hint % plen)
    ELSE IF hint # 0 /\ hint < m.end - m.start
         THEN m.start + (hint - (hint % plen))
         ELSE m.start

\* The stop value of xrange(start, end - structlen, plen).
ScanStop(m) == m.end - structlen

\* xrange(start, stop, step) still yields the value o.
InRange(o, stop) == o < stop

\* memoryMap.read_struct(offset, structType): FALSE when the structlen bytes
\* at offset escape the region.
ReadInRegion(m, o) == m.start <= o /\ o + structlen <= m.end

\* What loading the record at address o can answer: the answer already seen
\* at that address, or any answer for an address not loaded yet.
Answers(o) ==
    IF o \in DOMAIN mem THEN {mem[o]} ELSE {"valid", "invalid", "ioerror"}

\* Mutant: "if not m" written as a test that a false value passes.
Rejects_never(m) == FALSE

\* "if not m: raise ValueError" (_search), "if not memoryMap: raise
\* ValueError" (refresh, show_dumpname).
Rejects(m) == m = 0

\* Mutant: every loaded instance counts as validated.
Validated_always(ans) == TRUE

\* loadAt: validated is True when instance.loadMembers(...) is true, else
\* False.
Validated(ans) == ans = "valid"

\* outputs.append((instance, offset)); the instance is the record at offset.
AppendOutput(outs, r) == Append(outs, r)

\* Mutant: the results of a region are put in front of the earlier ones.
Extend_front(outs, found) == found \o outs

\* outputs.extend(find_struct_in(...))
Extend(outs, found) == outs \o found

\* "if len(outputs) >= maxNum": enough instances were found.
Enough(outs, n) == Len(outs) >= n

TypeOK ==
    /\ pc \in {"idle", "find_struct", "find_struct_in", "loadAt", "done", "error"}
    /\ err \in {"none", "ValueError", "TypeError", "IoError", "OutOfRegion"}
    /\ heap \in RegionIds
    /\ mi \in 1..(MaxRegions + 1)
    /\ verbose \in BOOLEAN

\* No call of the finder has been made.
FinderIdle ==
    /\ mem = <<>>
    /\ pc = "idle"
    /\ call = [entry |-> "none", fullscan |-> FALSE, given |-> FALSE, hint |-> 0]
    /\ targetMappings = <<>>
    /\ hintOffset = 0
    /\ maxNum = 1
    /\ verbose = FALSE
    /\ mi = 1
    /\ start = 0
    /\ offset = 0
    /\ inner = <<>>
    /\ outputs = <<>>
    /\ examined = <<>>
    /\ update_i = 0
    /\ err = "none"
    /\ plain = [ran |-> FALSE, outputs |-> <<>>]
    /\ memoryMap = 0
    /\ address = 0
    /\ rtype = "python"
    /\ shown = [returned |-> FALSE, form |-> "none", validated |-> FALSE]

\* WinHeapWalker._init_heap: every placeholder is None; nothing was walked,
\* no query was answered.
WalkerIdle ==
    /\ walker = [_allocs |-> None, _free_chunks |-> None,
                 _backend_committed |-> None, _backend_free |-> None,
                 _fth_committed |-> None, _fth_free |-> None,
                 _valloc_committed |-> None]
    /\ walked = [valloc |-> 0, backend |-> 0, frontend |-> 0]
    /\ calls = <<>>
    /\ used = [returned |-> FALSE, list |-> <<>>]

\* HeapFinder.__init__: no walker list yet; nothing was scanned, no call
\* was made.
HeapFinderIdle ==
    /\ hfinder = [_heap_walkers |-> [some |-> FALSE, v |-> <<>>],
                  _heap_walkers_dict |-> <<>>]
    /\ probes = [scans |-> 0, validated |-> {}]
    /\ heapsegs = <<>>
    /\ returns = <<>>

Init ==
    /\ \E skew \in Skews : mappings = Handler(skew)
    /\ heap \in RegionIds
    /\ FinderIdle
    /\ dump = EmptyDump
    /\ segments = <<>>
    /\ WalkerIdle
    /\ image = EmptyImage
    /\ HeapFinderIdle

\* Entering find_struct on a finder with perimeter tm: outputs = [].
EnterFindStruct(tm, hint, n, vb) ==
    /\ targetMappings' = tm
    /\ hintOffset' = hint
    /\ maxNum' = n
    /\ verbose' = vb
    /\ mi' = 1
    /\ outputs' = <<>>
    /\ inner' = <<>>
    /\ examined' = <<>>
    /\ update_i' = 0
    /\ pc' = "find_struct"
    /\ err' = "none"

\* _search(mappings, structType, fullscan, hint, maxnum): choose the search
\* space, build a StructFinder on it and call find_struct with the hint.
\* A non-zero hint in no region raises ValueError unless fullscan is set.
_search(fullscan, hint, n) ==
    /\ pc = "idle"
    /\ call' = [entry |-> "_search", fullscan |-> fullscan, given |-> FALSE,
                hint |-> hint]
    /\ LET m == get_mapping_for_address(mappings, hint)
       IN  IF ~fullscan /\ hint # 0 /\ Rejects(m)
           THEN /\ pc' = "error"
                /\ err' = "ValueError"
                /\ UNCHANGED <<targetMappings, hintOffset, maxNum, verbose, mi,
                               outputs, inner, examined, update_i>>
           ELSE EnterFindStruct(
                    StructFinder_init(TRUE, SearchPerimeter(fullscan, hint, m, heap)),
                    hint, n, FALSE)
    /\ UNCHANGED <<mappings, heap, mem, start, offset, plain>>

\* search_struct_mem(structName, mappings, targetMappings, maxNum): a
\* StructFinder on targetMappings (None when not given), no hint.
search_struct_mem(given, tm, n) ==
    /\ pc = "idle"
    /\ call' = [entry |-> "search_struct_mem", fullscan |-> FALSE,
                given |-> given, hint |-> 0]
    /\ EnterFindStruct(StructFinder_init(given, tm), 0, n, FALSE)
    /\ UNCHANGED <<mappings, heap, mem, start, offset, plain>>

\* StructFinder(mappings, targetMappings).find_struct(structType, hintOffset,
\* maxNum), called directly.
StructFinder_find_struct(tm, hint, n) ==
    /\ pc = "idle"
    /\ call' = [entry |-> "find_struct", fullscan |-> FALSE, given |-> TRUE,
                hint |-> hint]
    /\ EnterFindStruct(StructFinder_init(TRUE, tm), hint, n, FALSE)
    /\ UNCHANGED <<mappings, heap, mem, start, offset, plain>>

\* VerboseStructFinder(mappings, targetMappings, updateCb).find_struct with
\* the arguments of the StructFinder search that has just returned.
VerboseStructFinder_find_struct ==
    /\ pc = "done"
    /\ call.entry = "find_struct"
    /\ ~verbose
    /\ plain' = [ran |-> TRUE, outputs |-> outputs]
    /\ EnterFindStruct(StructFinder_init(TRUE, targetMappings), hintOffset,
                       maxNum, TRUE)
    /\ UNCHANGED <<mappings, heap, mem, call, start, offset>>

\* find_struct, "for m in self.targetMappings": return outputs when the
\* perimeter is exhausted, else enter find_struct_in on the next region.
find_struct ==
    /\ pc = "find_struct"
    /\ IF mi > Len(targetMappings)
       THEN /\ pc' = "done"
            /\ UNCHANGED <<start, offset, inner>>
       ELSE /\ start' = ScanStart(mappings[targetMappings[mi]], hintOffset)
            /\ offset' = start'
            /\ inner' = <<>>
            /\ pc' = "find_struct_in"
    /\ UNCHANGED <<mappings, heap, mem, call, targetMappings, hintOffset,
                   maxNum, verbose, mi, outputs, examined, update_i, err, plain>>

\* find_struct_in returns found to find_struct, which extends outputs and
\* breaks when it has enough, else goes on with the next region.
ReturnToFindStruct(found) ==
    /\ outputs' = Extend(outputs, found)
    /\ IF Enough(outputs', maxNum)
       THEN pc' = "done" /\ mi' = mi
       ELSE pc' = "find_struct" /\ mi' = mi + 1

\* (The progress log that find_struct_in writes when offset is a multiple of
\* 1024 << 6 changes nothing the search returns; no address of the modelled
\* regions is such a multiple.)
\* find_struct_in, one round of "for offset in xrange(start, end - structlen,
\* plen)": loadAt at the offset, append a validated instance, break when
\* enough were found; after the last round, return.  loadAt raises when the
\* read fails; VerboseStructFinder.loadAt counts the call, notifies the
\* callback and raises TypeError on its unbound StructFinder.loadAt call.
find_struct_in ==
    /\ pc = "find_struct_in"
    /\ LET r == targetMappings[mi]
           m == mappings[r]
           here == [pos |-> mi, m |-> r, addr |-> offset]
       IN  IF ~InRange(offset, ScanStop(m))
           THEN /\ ReturnToFindStruct(inner)
                /\ UNCHANGED <<inner, offset, examined, mem, update_i, err>>
           ELSE /\ examined' = Append(examined, here)
                /\ \/ /\ verbose
                      /\ update_i' = update_i + 1
                      /\ pc' = "error"
                      /\ err' = "TypeError"
                      /\ UNCHANGED <<mem, inner, offset, outputs, mi>>
                   \/ /\ ~verbose
                      /\ ~ReadInRegion(m, offset)
                      /\ pc' = "error"
                      /\ err' = "OutOfRegion"
                      /\ UNCHANGED <<mem, inner, offset, outputs, mi, update_i>>
                   \/ /\ ~verbose
                      /\ ReadInRegion(m, offset)
                      /\ \E ans \in Answers(offset) :
                            /\ mem' = (offset :> ans) @@ mem
                            /\ IF ans = "ioerror"
                               THEN /\ pc' = "error"
                                    /\ err' = "IoError"
                                    /\ UNCHANGED <<inner, offset, outputs, mi>>
                               ELSE /\ inner' = IF Validated(ans)
                                                THEN AppendOutput(inner, here)
                                                ELSE inner
                                    /\ IF Enough(inner', maxNum)
                                       THEN /\ ReturnToFindStruct(inner')
                                            /\ UNCHANGED <<offset, err>>
                                       ELSE /\ offset' = offset + plen
                                            /\ UNCHANGED <<pc, outputs, mi, err>>
                      /\ UNCHANGED update_i
    /\ UNCHANGED <<mappings, heap, call, targetMappings, hintOffset, maxNum,
                   verbose, start, plain>>

\* The entry of show_dumpname(structname, dumpname, address, rtype) and of
\* refresh(args) (api names which): validate the input address, raise
\* ValueError when it is not accessible, else go on to finder.loadAt.
LoadEntry(api, a, rt) ==
    /\ pc = "idle"
    /\ call' = [entry |-> api, fullscan |-> FALSE, given |-> FALSE, hint |-> a]
    /\ rtype' = rt
    /\ address' = a
    /\ LET m == is_valid_address_value(mappings, a)
       IN  IF Rejects(m)
           THEN /\ pc' = "error"
                /\ err' = "ValueError"
                /\ UNCHANGED memoryMap
           ELSE /\ pc' = "loadAt"
                /\ memoryMap' = m
                /\ UNCHANGED err
    /\ UNCHANGED <<mappings, heap, mem, targetMappings, hintOffset, maxNum,
                   verbose, mi, start, offset, inner, outputs, examined,
                   update_i, plain, shown, walkerVars, heapFinderVars>>

show_dumpname(a, rt) == LoadEntry("show_dumpname", a, rt)

\* refresh prints the text form (args.human).
refresh(a) == LoadEntry("refresh", a, "string")

\* _show_output(mappings, instance, validated, rtype): the pair
\* (pyObj, validated) for 'python', the text "(instance, validated)" for
\* 'string'; both carry validated as loadAt returned it.
show_output(validated, rt) ==
    [returned |-> TRUE, form |-> rt, validated |-> validated]

\* show_dumpname and refresh after the entry: finder.loadAt(memoryMap,
\* address, structType), then _show_output of what it returned.  loadAt
\* raises when the read fails.
loadAt ==
    /\ pc = "loadAt"
    /\ examined' = Append(examined,
                          [pos |-> 0, m |-> memoryMap, addr |-> address])
    /\ \/ /\ ~ReadInRegion(mappings[memoryMap], address)
          /\ pc' = "error"
          /\ err' = "OutOfRegion"
          /\ UNCHANGED <<mem, shown>>
       \/ /\ ReadInRegion(mappings[memoryMap], address)
          /\ \E ans \in Answers(address) :
                /\ mem' = (address :> ans) @@ mem
                /\ IF ans = "ioerror"
                   THEN /\ pc' = "error"
                        /\ err' = "IoError"
                        /\ UNCHANGED shown
                   ELSE /\ shown' = show_output(Validated(ans), rtype)
                        /\ pc' = "done"
                        /\ UNCHANGED err
    /\ UNCHANGED <<mappings, heap, call, targetMappings, hintOffset, maxNum,
                   verbose, mi, start, offset, inner, outputs, update_i,
                   plain, memoryMap, address, rtype, walkerVars,
                   heapFinderVars>>

\* The entry points are callable once, on an idle handler; the arguments are
\* drawn only then.
Next ==
    \/ /\ pc = "idle"
       /\ \E fullscan \in BOOLEAN, hint \in Hints(mappings), n \in MaxNums :
             _search(fullscan, hint, n)
       /\ UNCHANGED <<loadVars, walkerVars, heapFinderVars>>
    \/ /\ pc = "idle"
       /\ \E given \in BOOLEAN, n \in MaxNums :
             \E tm \in (IF given THEN Perimeters ELSE {<<>>}) :
                search_struct_mem(given, tm, n)
       /\ UNCHANGED <<loadVars, walkerVars, heapFinderVars>>
    \/ /\ pc = "idle"
       /\ \E tm \in Perimeters, hint \in Hints(mappings), n \in MaxNums :
             StructFinder_find_struct(tm, hint, n)
       /\ UNCHANGED <<loadVars, walkerVars, heapFinderVars>>
    \/ VerboseStructFinder_find_struct /\ UNCHANGED <<loadVars, walkerVars, heapFinderVars>>
    \/ find_struct /\ UNCHANGED <<loadVars, walkerVars, heapFinderVars>>
    \/ find_struct_in /\ UNCHANGED <<loadVars, walkerVars, heapFinderVars>>
    \/ /\ pc = "idle"
       /\ \E a \in LoadAddrs(mappings), rt \in RTypes : show_dumpname(a, rt)
    \/ /\ pc = "idle"
       /\ \E a \in LoadAddrs(mappings) : refresh(a)
    \/ loadAt

Spec == Init /\ [][Next]_vars

\* ------------------------------------------------------- the heap walker

\* Mutant: _check_sizes that lets a chunk of size 0 pass.
check_sizes_negative(chunks) == \A c \in chunks : ~(c[2] < 0)

\* _check_sizes(chunks): TRUE when it returns, FALSE when it raises
\* ValueError, which it does for a chunk with size <= 0.
check_sizes(chunks) == \A c \in chunks : ~(c[2] <= 0)

\* Mutant: the chunks are kept with their header.
StripHeader_none(chunks) == chunks

\* set([(addr + sublen, size - sublen) for addr, size in chunks]): the
\* HEAP_ENTRY header is taken off each backend chunk.
StripHeader(chunks) ==
    {<<c[1] + HEAP_ENTRY_size, c[2] - HEAP_ENTRY_size>> : c \in chunks}

\* Mutant: the validator is asked again whatever the walker holds.
NeedWalk_always(cache) == TRUE

\* "if self._valloc_committed is None", and the like for the other walks.
NeedWalk(cache) == ~cache.some

\* _get_virtualallocations on a walker w with walk counts n: the first time,
\* ask the validator for the virtual allocation blocks and keep the
\* (addr, commit size) pairs.
get_virtualallocations(w, n) ==
    IF NeedWalk(w._valloc_committed)
    THEN [w |-> [w EXCEPT !._valloc_committed =
                              Some({<<b[1], b[2]>> : b \in dump.vallocs})],
          n |-> [n EXCEPT !.valloc = @ + 1]]
    ELSE [w |-> w, n |-> n]

\* _get_chunks: the first time, ask the validator for the backend chunks.
get_chunks(w, n) ==
    IF NeedWalk(w._backend_committed) /\ NeedWalk(w._backend_free)
    THEN [w |-> [w EXCEPT !._backend_committed = Some(dump.chunks),
                          !._backend_free = Some(dump.free_chunks)],
          n |-> [n EXCEPT !.backend = @ + 1]]
    ELSE [w |-> w, n |-> n]

\* _get_frontend_chunks: the first time, ask the validator for the frontend
\* chunks.
get_frontend_chunks(w, n) ==
    IF NeedWalk(w._fth_committed) /\ NeedWalk(w._fth_free)
    THEN [w |-> [w EXCEPT !._fth_committed = Some(dump.front_allocs),
                          !._fth_free = Some(dump.front_free_chunks)],
          n |-> [n EXCEPT !.frontend = @ + 1]]
    ELSE [w |-> w, n |-> n]

\* Mutant: the virtual allocations are left out.
BackendAllocs_chunks(vallocs, chunks2) == chunks2

\* backend_allocs = vallocs | chunks2
BackendAllocs(vallocs, chunks2) == vallocs \cup chunks2

\* Mutant: the lookaside chunks are not taken off.
LookasideAllocs_all(backend_allocs, front_free_chunks2) == backend_allocs

\* FrontEndHeapType 1: self._allocs = backend_allocs - front_free_chunks2
LookasideAllocs(backend_allocs, front_free_chunks2) ==
    backend_allocs \ front_free_chunks2

\* Mutant: the union is made before the difference.
LFHAllocs_union_first(backend_allocs, front_free_chunks2, front_allocs2) ==
    (backend_allocs \cup front_allocs2) \ front_free_chunks2

\* FrontEndHeapType 2:
\* self._allocs = backend_allocs - front_free_chunks2 | front_allocs2,
\* where - binds tighter than |.
LFHAllocs(backend_allocs, front_free_chunks2, front_allocs2) ==
    (backend_allocs \ front_free_chunks2) \cup front_allocs2

\* Mutant: the frontend free chunks are left out of the free chunks.
FrontFreeChunks_backend(front_free_chunks2, backend_free_chunks) ==
    backend_free_chunks

\* self._free_chunks = front_free_chunks2 | backend_free_chunks
FrontFreeChunks(front_free_chunks2, backend_free_chunks) ==
    front_free_chunks2 \cup backend_free_chunks

\* Mutant: the virtual allocations are stored as the result before the sizes
\* are checked.
Raised_partial(s) ==
    [w |-> [s.w EXCEPT !._allocs = Some(s.w._valloc_committed.v)],
     n |-> s.n, raised |-> TRUE]

\* How _set_chunk_lists ends: it raised, or it returned.
Raised(s) == [w |-> s.w, n |-> s.n, raised |-> TRUE]

Returned(w, n) == [w |-> w, n |-> n, raised |-> FALSE]

\* _set_chunk_lists on a walker w with walk counts n: walk the virtual
\* allocations and the backend, take the headers off, and for a
\* FrontEndHeapType other than 0 walk the frontend; every set is passed to
\* _check_sizes as soon as it is made.  A FrontEndHeapType that is not 0, 1
\* or 2 leaves _allocs and _free_chunks as they were.
set_chunk_lists(w, n) ==
    LET s1 == get_virtualallocations(w, n)
        vallocs == s1.w._valloc_committed.v
        s2 == get_chunks(s1.w, s1.n)
        chunks == s2.w._backend_committed.v
        free_chunks == s2.w._backend_free.v
        chunks2 == StripHeader(chunks)
        backend_allocs == BackendAllocs(vallocs, chunks2)
        backend_free_chunks == StripHeader(free_chunks)
        s3 == get_frontend_chunks(s2.w, s2.n)
        front_allocs2 == s3.w._fth_committed.v
        front_free_chunks2 == s3.w._fth_free.v
        t == dump.FrontEndHeapType
    IN  IF ~check_sizes(vallocs)
        THEN Raised(s1)
        ELSE IF ~(/\ check_sizes(chunks)
                  /\ check_sizes(free_chunks)
                  /\ check_sizes(backend_allocs)
                  /\ check_sizes(backend_free_chunks))
        THEN Raised(s2)
        ELSE IF t = 0
        THEN Returned([s2.w EXCEPT !._allocs = Some(backend_allocs),
                                   !._free_chunks = Some(backend_free_chunks)],
                      s2.n)
        ELSE IF ~(check_sizes(front_allocs2) /\ check_sizes(front_free_chunks2))
        THEN Raised(s3)
        ELSE IF t = 1
        THEN Returned([s3.w EXCEPT
                          !._allocs = Some(LookasideAllocs(backend_allocs,
                                                           front_free_chunks2)),
                          !._free_chunks = Some(FrontFreeChunks(front_free_chunks2,
                                                                backend_free_chunks))],
                      s3.n)
        ELSE IF t = 2
        THEN Returned([s3.w EXCEPT
                          !._allocs = Some(LFHAllocs(backend_allocs,
                                                     front_free_chunks2,
                                                     front_allocs2)),
                          !._free_chunks = Some(FrontFreeChunks(front_free_chunks2,
                                                                backend_free_chunks))],
                      s3.n)
        ELSE Returned(s3.w, s3.n)

\* A query on the field f of the walker ("_allocs" or "_free_chunks"): "if
\* self.<f> is None: self._set_chunk_lists()", then "return self.<f>".  The
\* query returns a set, returns None, or ends in the ValueError of
\* _check_sizes.
Query(f) ==
    /\ Len(calls) < MaxCalls
    /\ LET r == IF ~walker[f].some
                THEN set_chunk_lists(walker, walked)
                ELSE Returned(walker, walked)
       IN  /\ walker' = r.w
           /\ walked' = r.n
           /\ calls' = Append(calls,
                  [q |-> f,
                   out |-> IF r.raised THEN "ValueError"
                           ELSE IF r.w[f].some THEN "set" ELSE "None",
                   val |-> IF r.raised THEN {} ELSE r.w[f].v])
    /\ UNCHANGED <<finderVars, loadVars, dump, segments, used, heapFinderVars>>

get_user_allocations == Query("_allocs")

get_free_chunks == Query("_free_chunks")

\* A walker on a heap of at most MaxChunks chunks.
InitHeap ==
    /\ mappings = Handler(0)
    /\ heap = 1
    /\ FinderIdle
    /\ segments = <<>>
    /\ WalkerIdle
    /\ image = EmptyImage
    /\ HeapFinderIdle
    /\ \E t \in FrontEndHeapTypes, v \in KSubsets(MaxChunks) :
          \E cc \in KSubsets(MaxChunks - Cardinality(v)) :
             \E cf \in KSubsets(MaxChunks - Cardinality(v) - Cardinality(cc)) :
                \E aa \in KSubsets(MaxChunks - Cardinality(v) - Cardinality(cc)
                                      - Cardinality(cf)) :
                   \E fa \in KSubsets(MaxChunks - Cardinality(v)
                                         - Cardinality(cc) - Cardinality(cf)
                                         - Cardinality(aa)) :
                      dump = Dump(t, v, cc, cf, aa, fa)

NextHeap ==
    \/ get_user_allocations
    \/ get_free_chunks

SpecHeap == InitHeap /\ [][NextHeap]_vars

\* Mutant: only the region where a segment starts counts as used.
UsesMapping_start_only(m, b) == m.start <= b[1] /\ b[1] < m.end

\* "if m.start <= start < m.end: ... elif start <= m.start < end: ...", for a
\* region m and a boundary b = (start, end).
UsesMapping(m, b) ==
    \/ m.start <= b[1] /\ b[1] < m.end
    \/ b[1] <= m.start /\ m.start < b[2]

\* "for start, end in boundaries: if ...: used.append(m); break", from the
\* k-th boundary on: what the region at index i adds to used.
RECURSIVE UsedAppend(_, _, _, _)
UsedAppend(maps, i, boundaries, k) ==
    IF k > Len(boundaries)
    THEN <<>>
    ELSE IF UsesMapping(maps[i], boundaries[k])
         THEN <<i>>
         ELSE UsedAppend(maps, i, boundaries, k + 1)

\* "for m in self._memory_handler.get_mappings(): ...", from the i-th region
\* on.
RECURSIVE UsedFrom(_, _, _)
UsedFrom(maps, i, boundaries) ==
    IF i > Len(maps)
    THEN <<>>
    ELSE UsedAppend(maps, i, boundaries, 1) \o UsedFrom(maps, i + 1, boundaries)

\* list_used_mappings: the boundaries (start, LastValidEntry) of the heap's
\* segments, then the regions of the memory handler that a boundary uses.
list_used_mappings ==
    /\ ~used.returned
    /\ LET boundaries == [k \in DOMAIN segments |->
                            <<segments[k]._orig_address_,
                              segments[k].LastValidEntry>>]
       IN  used' = [returned |-> TRUE, list |-> UsedFrom(mappings, 1, boundaries)]
    /\ UNCHANGED <<finderVars, loadVars, dump, segments, walker, walked, calls,
                   heapFinderVars>>

\* A walker on a heap with one to MaxSegments segments.
InitMappings ==
    /\ \E skew \in Skews : mappings = Handler(skew)
    /\ heap = 1
    /\ FinderIdle
    /\ dump = EmptyDump
    /\ segments \in SegmentLists(mappings)
    /\ WalkerIdle
    /\ image = EmptyImage
    /\ HeapFinderIdle

NextMappings == list_used_mappings

SpecMappings == InitMappings /\ [][NextMappings]_vars

\* ------------------------------------------------------- the heap finder

\* mapping.read_bytes(addr, n): FALSE when the n bytes at addr escape the
\* region.
ReadBytesInRegion(m, addr, n) == m.start <= addr /\ addr + n <= m.end

\* Mutant: every candidate is handed to the validator.
SignatureMatches_any(slot) == TRUE

\* "if signature == 0xeeffeeff", for the four bytes read at the signature
\* offset of the candidate slot = (addr, bits).
SignatureMatches(slot) == slot \in image.signed

\* __is_heap, after the HEAP record was read: validator.load_members(heap, 1).
load_members(slot) == slot \in image.valid

\* The walker that _find_heap builds for the region at index i: bound to
\* the layout bits, at the address addr.
NewWalker(i, addr, bits) == [addr |-> addr, bits |-> bits, mapping |-> i]

\* _find_heap(mapping) on the region at index i, from the candidate addr and
\* the k-th layout on; vs are the candidates the validator has seen.  It
\* returns a walker, returns None, or ends in the error of a read that
\* escapes the region.
RECURSIVE find_heap(_, _, _, _, _)
find_heap(maps, i, addr, k, vs) ==
    LET m == maps[i]
        bits == Layouts[k]
        slot == <<addr, bits>>
        sigoff == SignatureOffset(bits)
    IN  IF ~(addr < m.end)
        THEN [out |-> "None", w |-> NewWalker(i, 0, 0), validated |-> vs]
        ELSE IF ~ReadBytesInRegion(m, addr + sigoff, 4)
        THEN [out |-> "error", w |-> NewWalker(i, 0, 0), validated |-> vs]
        ELSE IF SignatureMatches(slot) /\ ~HeapFits(m, addr)
        THEN [out |-> "error", w |-> NewWalker(i, 0, 0), validated |-> vs]
        ELSE IF SignatureMatches(slot) /\ load_members(slot)
        THEN [out |-> "walker", w |-> NewWalker(i, addr, bits),
              validated |-> vs \cup {slot}]
        ELSE LET seen == IF SignatureMatches(slot) THEN vs \cup {slot} ELSE vs
             IN  IF k < Len(Layouts)
                 THEN find_heap(maps, i, addr, k + 1, seen)
                 ELSE find_heap(maps, i, addr + PageSize, 1, seen)

\* "for mapping in self._memory_handler: walker = self._find_heap(mapping);
\* if walker: ...", from the region at index i on; st holds the walker list,
\* the dictionary and the candidates validated so far.  An error of
\* _find_heap ends the loop where it is.
RECURSIVE ScanFrom(_, _, _)
ScanFrom(maps, i, st) ==
    IF i > Len(maps)
    THEN st
    ELSE LET f == find_heap(maps, i, maps[i].start, 1, st.validated)
         IN  IF f.out = "error"
             THEN [st EXCEPT !.out = "error", !.validated = f.validated]
             ELSE IF f.out = "walker"
             THEN ScanFrom(maps, i + 1,
                     [st EXCEPT
                        !.walkers = Append(@, f.w),
                        !.dict = (f.w.addr :> f.w) @@ (maps[i].start :> f.w) @@ @,
                        !.validated = f.validated])
             ELSE ScanFrom(maps, i + 1, [st EXCEPT !.validated = f.validated])

\* Mutant: the walkers are sorted by descending heap address.
SortByHeapAddress_descending(ws) ==
    CHOOSE sorted \in [DOMAIN ws -> Range(ws)] :
        /\ Range(sorted) = Range(ws)
        /\ \A a, b \in DOMAIN ws : a < b => sorted[a].addr >= sorted[b].addr

\* self._heap_walkers.sort(key=lambda walker: walker.get_heap_address())
SortByHeapAddress(ws) ==
    CHOOSE sorted \in [DOMAIN ws -> Range(ws)] :
        /\ Range(sorted) = Range(ws)
        /\ \A a, b \in DOMAIN ws : a < b => sorted[a].addr <= sorted[b].addr

\* "for m in walker.list_used_mappings(): if m.start not in
\* self._heap_walkers_dict: self._heap_walkers_dict[m.start] = walker", from
\* the j-th used region on.
RECURSIVE PointUsed(_, _, _, _, _)
PointUsed(maps, w, usedlist, j, dict) ==
    IF j > Len(usedlist)
    THEN dict
    ELSE LET key == maps[usedlist[j]].start
         IN  PointUsed(maps, w, usedlist, j + 1,
                       IF key \in DOMAIN dict THEN dict ELSE (key :> w) @@ dict)

\* "for walker in self._heap_walkers: ...", from the k-th walker on; hs gives
\* for each heap address what its segment walk yields.  A failing segment
\* walk ends the loop where it is.
RECURSIVE PointAllUsed(_, _, _, _, _)
PointAllUsed(maps, ws, k, dict, hs) ==
    IF k > Len(ws)
    THEN [out |-> "list", dict |-> dict]
    ELSE IF hs[ws[k].addr].fails
    THEN [out |-> "error", dict |-> dict]
    ELSE LET sg == hs[ws[k].addr].list
             boundaries == [n \in DOMAIN sg |->
                               <<sg[n]._orig_address_, sg[n].LastValidEntry>>]
         IN  PointAllUsed(maps, ws, k + 1,
                          PointUsed(maps, ws[k], UsedFrom(maps, 1, boundaries),
                                    1, dict),
                          hs)

\* "if not self._heap_walkers" is false: the list is set and not empty.
Cached(field) == field.some /\ field.v # <<>>

\* list_heap_walkers: unless a list is cached, scan every region for a heap,
\* sort the walkers by heap address, and point the regions that the heaps'
\* segments use to their walker; return the list.  An error of a read or of
\* a segment walk ends the call, with the fields as they are by then.
list_heap_walkers ==
    /\ Len(returns) < MaxCalls
    /\ IF Cached(hfinder._heap_walkers)
       THEN /\ returns' = Append(returns,
                              [out |-> "list", val |-> hfinder._heap_walkers.v])
            /\ UNCHANGED <<hfinder, probes, heapsegs>>
       ELSE LET sc == ScanFrom(mappings, 1,
                               [out |-> "list", walkers |-> <<>>, dict |-> <<>>,
                                validated |-> probes.validated])
                sorted == SortByHeapAddress(sc.walkers)
            IN  /\ probes' = [scans |-> probes.scans + 1,
                              validated |-> sc.validated]
                /\ IF sc.out = "error"
                   THEN /\ hfinder' = [_heap_walkers |->
                                           [some |-> TRUE, v |-> sc.walkers],
                                       _heap_walkers_dict |-> sc.dict]
                        /\ returns' = Append(returns,
                                             [out |-> "error", val |-> <<>>])
                        /\ UNCHANGED heapsegs
                   ELSE \E hs \in [{w.addr : w \in Range(sorted)} ->
                                       HeapSegments(mappings)] :
                           LET p == PointAllUsed(mappings, sorted, 1, sc.dict, hs)
                           IN  /\ hfinder' = [_heap_walkers |->
                                                  [some |-> TRUE, v |-> sorted],
                                              _heap_walkers_dict |-> p.dict]
                               /\ heapsegs' = hs
                               /\ returns' = Append(returns,
                                     [out |-> p.out,
                                      val |-> IF p.out = "error" THEN <<>>
                                              ELSE sorted])
    /\ UNCHANGED <<finderVars, loadVars, walkerVars, image>>

\* A heap finder on a process memory with at most MaxSignatures heap
\* signatures.
InitFinder ==
    /\ \E lens \in [RegionIds -> RegionLengths] :
          /\ mappings = FinderHandler(lens)
          /\ image \in Images(mappings)
    /\ heap = 1
    /\ FinderIdle
    /\ dump = EmptyDump
    /\ segments = <<>>
    /\ WalkerIdle
    /\ HeapFinderIdle

NextFinder == list_heap_walkers

SpecFinder == InitFinder /\ [][NextFinder]_vars


\* ------------------------------------------------------------ the claims
\* hint - hint % plen
AlignDown(a) == a - (a % plen)

\* The offsets xrange(start, end - structlen, plen) yields for region m.
ScanOffsets(m, hint) ==
    {o \in ScanStart(m, hint)..(ScanStop(m) - 1) :
        (o - ScanStart(m, hint)) % plen = 0}

\* The offsets passed to loadAt while scanning the region at perimeter
\* position pos.
ExaminedAt(pos) ==
    {examined[k].addr : k \in {j \in DOMAIN examined : examined[j].pos = pos}}

\* The region of the handler that holds the caller's hint (0: none).
HintRegion == get_mapping_for_address(mappings, call.hint)

\* C1: for every perimeter and every maxNum N >= 1, the list find_struct
\* returns holds at most N (instance, address) pairs.
C1_AtMostMaxNum ==
    (pc = "done" /\ maxNum >= 1) => Len(outputs) <= maxNum

\* C2: with maxNum = -1 the search is unbounded: every offset of the scan of
\* every perimeter region is examined, and every offset the validator accepts
\* is in the returned list.
C2_MinusOneUnbounded ==
    (pc = "done" /\ maxNum = -1) =>
        \A pos \in DOMAIN targetMappings :
            \A o \in ScanOffsets(mappings[targetMappings[pos]], hintOffset) :
                /\ o \in ExaminedAt(pos)
                /\ (o \in DOMAIN mem /\ mem[o] = "valid") =>
                       \E k \in DOMAIN outputs :
                           outputs[k].pos = pos /\ outputs[k].addr = o

\* C3: a search started (by _search, whatever fullscan, or by find_struct,
\* whatever the perimeter) with a non-zero hint lying in region R hands only
\* offsets inside R to the validator, returns only addresses inside R and
\* examines no other region.
C3_HintConfinesSearch ==
    (call.entry \in {"_search", "find_struct"} /\ call.hint # 0
        /\ HintRegion # 0) =>
        /\ \A k \in DOMAIN examined :
              /\ examined[k].m = HintRegion
              /\ InMapping(examined[k].addr, mappings[HintRegion])
        /\ \A k \in DOMAIN outputs :
              /\ outputs[k].m = HintRegion
              /\ InMapping(outputs[k].addr, mappings[HintRegion])

\* Where the scan of region m starts, as C4 states it.
C4_ClaimedStart(m, hint) ==
    IF InMapping(hint, m) THEN AlignDown(hint) ELSE m.start

\* Where the scan of region m starts, as C4 is amended: a non-zero hint outside
\* the region and smaller than its length is a relative offset.
C4_AmendedStart(m, hint) ==
    IF InMapping(hint, m) THEN AlignDown(hint)
    ELSE IF hint = 0 \/ hint >= MapLen(m) THEN m.start
    ELSE m.start + AlignDown(hint)

\* The first offset examined at perimeter position pos.
FirstExaminedAt(pos) ==
    examined[CHOOSE k \in DOMAIN examined :
                /\ examined[k].pos = pos
                /\ \A j \in DOMAIN examined : examined[j].pos = pos => k <= j].addr

\* C4 (as claimed): in find_struct_in the first examined offset is
\* align_down(hint, pointer_width) when the hint lies in the region, and the
\* region start when it does not; no lower offset is examined.
C4_ScanStartAsClaimed ==
    \A pos \in DOMAIN targetMappings :
        ExaminedAt(pos) # {} =>
            LET s == C4_ClaimedStart(mappings[targetMappings[pos]], hintOffset)
            IN  /\ FirstExaminedAt(pos) = s
                /\ \A o \in ExaminedAt(pos) : o >= s

\* C4 (amended): in find_struct_in the first examined offset is
\* align_down(hint, pointer_width) when the hint lies in the region; when it
\* does not, the scan starts at the region start if the hint is 0 or not
\* smaller than the region's length, and at region start +
\* align_down(hint, pointer_width) otherwise; no lower offset is examined.
C4_ScanStartAmended ==
    \A pos \in DOMAIN targetMappings :
        ExaminedAt(pos) # {} =>
            LET s == C4_AmendedStart(mappings[targetMappings[pos]], hintOffset)
            IN  /\ FirstExaminedAt(pos) = s
                /\ \A o \in ExaminedAt(pos) : o >= s

\* C4 witness: a finished search whose unaligned hint lies in one of two
\* scanned regions.
C4_Witness ==
    /\ pc = "done"
    /\ Len(targetMappings) = 2
    /\ hintOffset % plen # 0
    /\ \E pos \in DOMAIN targetMappings :
          InMapping(hintOffset, mappings[targetMappings[pos]])
    /\ \A pos \in DOMAIN targetMappings : ExaminedAt(pos) # {}

\* C5: every returned address is a multiple of the pointer width, whatever
\* the region start and the hint.
C5_ResultsAligned ==
    \A k \in DOMAIN outputs : outputs[k].addr % plen = 0

\* C6: the result list of find_struct is ordered: the results of an earlier
\* perimeter region come before those of a later one, and the addresses found
\* in one region are strictly increasing.
C6_ResultsOrdered ==
    \A i, j \in DOMAIN outputs :
        i < j =>
            \/ outputs[i].pos < outputs[j].pos
            \/ /\ outputs[i].pos = outputs[j].pos
               /\ outputs[i].addr < outputs[j].addr

\* C6 witness: a returned list with two results of one region and a result of
\* another region.
C6_Witness ==
    /\ pc = "done"
    /\ \E i, j, k \in DOMAIN outputs :
          /\ i # j
          /\ outputs[i].pos = outputs[j].pos
          /\ outputs[k].pos # outputs[i].pos

\* C7: a scan that the result limit does not cut short covers the cursor
\* positions up to and including end - sizeof(record_type): the record in the
\* last sizeof(record_type) bytes of a region, when pointer-width steps from
\* the scan start reach it, is handed to the validator.
C7_LastRecordExamined ==
    (pc = "done" /\ maxNum >= 1 /\ Len(outputs) < maxNum) =>
        \A pos \in DOMAIN targetMappings :
            LET m == mappings[targetMappings[pos]]
                s == ScanStart(m, hintOffset)
                last == m.end - structlen
            IN  (last >= s /\ (last - s) % plen = 0) => last \in ExaminedAt(pos)

\* C8: a search with a progress observer (VerboseStructFinder) ends without
\* an error and returns the list the same search returned without one.
C8_ObserverTransparent ==
    (verbose /\ plain.ran /\ pc \in {"done", "error"}) =>
        (pc = "done" /\ outputs = plain.outputs)

\* C9: a read error at one scan offset does not abort the search.
C9_ReadErrorIsolated ==
    ~(pc = "error" /\ err \in {"IoError", "OutOfRegion"})

\* C10 (as claimed): without a perimeter and without a hint (_search with
\* fullscan false; search_struct_mem with targetMappings = None) the only
\* region examined is the heap region.
C10_DefaultIsHeapAsClaimed ==
    (/\ call.hint = 0
     /\ \/ call.entry = "_search" /\ ~call.fullscan
        \/ call.entry = "search_struct_mem" /\ ~call.given) =>
        \A k \in DOMAIN examined : examined[k].m = heap

\* C10 (amended): without a hint, _search with fullscan false examines only
\* the heap region; a StructFinder built with targetMappings = None, as by
\* search_struct_mem, has every region of the handler as its perimeter.
C10_DefaultPerimeter ==
    /\ (call.entry = "_search" /\ ~call.fullscan /\ call.hint = 0) =>
           /\ pc # "idle" => targetMappings = <<heap>>
           /\ \A k \in DOMAIN examined : examined[k].m = heap
    /\ (call.entry = "search_struct_mem" /\ ~call.given) =>
           targetMappings = AllRegions

\* C10 witness: a finished _search without fullscan and hint that examined
\* offsets of a heap region that is not the first region.
C10_Witness ==
    /\ pc = "done"
    /\ call.entry = "_search" /\ ~call.fullscan /\ call.hint = 0
    /\ heap # 1
    /\ examined # <<>>

\* The entry points that load one record at a given address.
LoadEntries == {"show_dumpname", "refresh"}

C12_UnmappedRejected ==
    (/\ pc # "idle"
     /\ \/ call.entry \in LoadEntries
        \/ call.entry = "_search" /\ ~call.fullscan /\ call.hint # 0
     /\ \A i \in DOMAIN mappings : ~InMapping(call.hint, mappings[i])) =>
        /\ pc = "error"
        /\ err = "ValueError"
        /\ examined = <<>>
        /\ mem = <<>>
        /\ outputs = <<>>
        /\ ~shown.returned

\* C12 witness: show_dumpname or refresh has rejected a non-zero address
\* that lies in no region.
C12_Witness ==
    /\ pc = "error"
    /\ err = "ValueError"
    /\ call.entry \in LoadEntries
    /\ call.hint # 0
    /\ \A i \in DOMAIN mappings : ~InMapping(call.hint, mappings[i])

\* ------------------------------------------------- claims on the heap walker

\* The sets the validator returns for the heap, as the claims name them: V
\* the virtual allocations, C and Cf the committed and free backend chunks
\* with their header, Aa and Fa the frontend's allocated and free chunks.
V == {<<b[1], b[2]>> : b \in dump.vallocs}

C == dump.chunks

Cf == dump.free_chunks

Aa == dump.front_allocs

Fa == dump.front_free_chunks

\* A backend chunk (a, s) with the header removed: (a + h, s - h).
HeaderRemoved(c) == <<c[1] + HEAP_ENTRY_size, c[2] - HEAP_ENTRY_size>>

\* A = V with the committed backend chunks, header removed; Fb = the free
\* backend chunks, header removed.
A == V \cup {HeaderRemoved(c) : c \in C}

Fb == {HeaderRemoved(c) : c \in Cf}

\* The sets that the answered queries for field f returned.
ReturnedSets(f) ==
    {calls[k].val : k \in {j \in DOMAIN calls :
                              calls[j].q = f /\ calls[j].out = "set"}}

\* Both queries were answered with a set.
BothReturned == ReturnedSets("_allocs") # {} /\ ReturnedSets("_free_chunks") # {}

\* C13: for a heap with FrontEndHeapType 0, get_user_allocations returns
\* exactly A and get_free_chunks exactly Fb, and the frontend is never
\* walked.
C13_BackendOnly ==
    dump.FrontEndHeapType = 0 =>
        /\ \A k \in DOMAIN calls : calls[k].out # "None"
        /\ \A r \in ReturnedSets("_allocs") : r = A
        /\ \A r \in ReturnedSets("_free_chunks") : r = Fb
        /\ walked.frontend = 0
        /\ ~walker._fth_committed.some /\ ~walker._fth_free.some

\* C13 witness: both queries answered on a heap with FrontEndHeapType 0
\* that has a virtual allocation, a committed backend chunk, and a frontend
\* free chunk equal to one of the allocations returned.
C13_Witness ==
    /\ dump.FrontEndHeapType = 0
    /\ BothReturned
    /\ V # {} /\ C # {}
    /\ A \cap Fa # {}

\* C14: for a heap with FrontEndHeapType 1, get_user_allocations returns
\* exactly A minus Fa and get_free_chunks exactly Fa union Fb.
C14_Lookaside ==
    dump.FrontEndHeapType = 1 =>
        /\ \A k \in DOMAIN calls : calls[k].out # "None"
        /\ \A r \in ReturnedSets("_allocs") : r = A \ Fa
        /\ \A r \in ReturnedSets("_free_chunks") : r = Fa \cup Fb

\* C14 witness: both queries answered on a heap with FrontEndHeapType 1
\* where a lookaside chunk is taken off the allocations and another
\* allocation stays.
C14_Witness ==
    /\ dump.FrontEndHeapType = 1
    /\ BothReturned
    /\ A \cap Fa # {}
    /\ A \ Fa # {}

\* C15: for a heap with FrontEndHeapType 2, get_user_allocations returns
\* exactly (A minus Fa) union Aa, the difference taken before the union,
\* and get_free_chunks exactly Fa union Fb.
C15_LFH ==
    dump.FrontEndHeapType = 2 =>
        /\ \A k \in DOMAIN calls : calls[k].out # "None"
        /\ \A r \in ReturnedSets("_allocs") : r = (A \ Fa) \cup Aa
        /\ \A r \in ReturnedSets("_free_chunks") : r = Fa \cup Fb

\* C15 witness: both queries answered on a heap with FrontEndHeapType 2
\* where the order of difference and union shows: an LFH allocated chunk is
\* also an LFH free chunk.
C15_Witness ==
    /\ dump.FrontEndHeapType = 2
    /\ BothReturned
    /\ Aa \cap Fa # {}
    /\ A # {}

\* C16: whenever both queries succeed, get_user_allocations and
\* get_free_chunks have no (address, size) element in common.
C16_Disjoint ==
    \A ua \in ReturnedSets("_allocs"), fc \in ReturnedSets("_free_chunks") :
        ua \cap fc = {}

\* A set of chunks holds a chunk of size <= 0.
BadSize(chunks) == \E c \in chunks : c[2] <= 0

\* A set that the queries walk holds a chunk of size <= 0: the virtual
\* allocations, the backend chunks before or after header removal, and,
\* unless FrontEndHeapType is 0, the frontend chunks.
BadSizeWalked ==
    \/ BadSize(V)
    \/ BadSize(C) \/ BadSize(Cf)
    \/ BadSize(A) \/ BadSize(Fb)
    \/ dump.FrontEndHeapType # 0 /\ (BadSize(Aa) \/ BadSize(Fa))

\* C17: every (addr, size) returned by either query has size > 0, and when
\* a walked set holds a chunk of size <= 0, every query raises an error
\* instead of returning a result.
C17_SizesPositive ==
    /\ \A f \in {"_allocs", "_free_chunks"} :
          \A r \in ReturnedSets(f) : \A c \in r : c[2] > 0
    /\ BadSizeWalked => \A k \in DOMAIN calls : calls[k].out = "ValueError"

\* C17 witness: a query raised on a heap whose only chunk of size <= 0 is a
\* committed backend chunk after its header is removed, and another heap
\* set is not empty.
C17_Witness ==
    /\ calls # <<>>
    /\ calls[1].out = "ValueError"
    /\ ~BadSize(V) /\ ~BadSize(C) /\ ~BadSize(Cf) /\ ~BadSize(Fb)
    /\ ~BadSize(Aa) /\ ~BadSize(Fa)
    /\ BadSize(A)
    /\ V # {}

\* C18: every chunk returned excludes the HEAP_ENTRY header.  A backend
\* chunk (a, s) is returned only as (a + h, s - h): whatever a query
\* returns comes from the virtual allocations, the frontend chunks, or a
\* backend chunk with the header removed; and the header-removed committed
\* chunk is missing from the user allocations only when the frontend is in
\* use and a frontend free chunk equals that header-removed pair.
C18_HeaderExcluded ==
    dump.FrontEndHeapType \in {0, 1, 2} =>
        /\ \A r \in ReturnedSets("_allocs") :
              /\ r \subseteq V \cup Aa \cup {HeaderRemoved(c) : c \in C}
              /\ \A c \in C :
                    HeaderRemoved(c) \notin r =>
                        /\ dump.FrontEndHeapType # 0
                        /\ HeaderRemoved(c) \in Fa
        /\ \A r \in ReturnedSets("_free_chunks") :
              /\ r \subseteq Fa \cup {HeaderRemoved(c) : c \in Cf}
              /\ \A c \in Cf : HeaderRemoved(c) \in r

\* C18 witness: on a heap with a frontend, a frontend free chunk equal to a
\* committed backend chunk with its header does not take that chunk off:
\* the user allocations returned hold the header-removed chunk, and not the
\* chunk with its header.
C18_Witness ==
    /\ dump.FrontEndHeapType \in {1, 2}
    /\ \E c \in C :
          /\ c \in Fa
          /\ \E r \in ReturnedSets("_allocs") :
                HeaderRemoved(c) \in r /\ c \notin r
    /\ ReturnedSets("_free_chunks") # {}

\* What a query for field f returns on the heap, whatever was called before:
\* the ValueError of a bad size, or the set that the FrontEndHeapType gives.
Outcome(f) ==
    IF BadSizeWalked
    THEN [q |-> f, out |-> "ValueError", val |-> {}]
    ELSE [q |-> f, out |-> "set",
          val |-> IF f = "_free_chunks"
                  THEN (IF dump.FrontEndHeapType = 0 THEN Fb ELSE Fa \cup Fb)
                  ELSE (IF dump.FrontEndHeapType = 0 THEN A
                        ELSE IF dump.FrontEndHeapType = 1 THEN A \ Fa
                        ELSE (A \ Fa) \cup Aa)]

\* C19: over any sequence of get_user_allocations and get_free_chunks calls
\* on one walker of a heap with FrontEndHeapType 0, 1 or 2, the validator
\* walks the virtual allocations, the backend and the frontend at most once
\* each, a later call of a query returns what its first call returned, and
\* what a query returns does not depend on the calls made before it.
C19_ComputedOnce ==
    dump.FrontEndHeapType \in {0, 1, 2} =>
        /\ walked.valloc <= 1 /\ walked.backend <= 1 /\ walked.frontend <= 1
        /\ \A i, j \in DOMAIN calls :
              calls[i].q = calls[j].q => calls[i] = calls[j]
        /\ \A k \in DOMAIN calls : calls[k] = Outcome(calls[k].q)

\* C19 witness: get_free_chunks was called first and get_user_allocations
\* after it on a heap with an LFH frontend; both returned sets that are not
\* empty, and each walk was made once.
C19_Witness ==
    /\ dump.FrontEndHeapType = 2
    /\ Len(calls) = MaxCalls
    /\ calls[1].q = "_free_chunks" /\ calls[1].out = "set" /\ calls[1].val # {}
    /\ calls[Len(calls)].q = "_allocs"
    /\ calls[Len(calls)].out = "set" /\ calls[Len(calls)].val # {}
    /\ walked = [valloc |-> 1, backend |-> 1, frontend |-> 1]

\* A region m and the span [start, LastValidEntry) of a segment sg overlap:
\* they have an address in common.
Overlaps(m, sg) ==
    \E x \in m.start .. (m.end - 1) :
        sg._orig_address_ <= x /\ x < sg.LastValidEntry

\* C20: list_used_mappings returns exactly the regions of the memory handler
\* that overlap the span [segment start, LastValidEntry) of at least one
\* segment of the heap, each such region once, in memory-handler order; a
\* region that overlaps no segment span is not returned.
C20_UsedMappings ==
    used.returned =>
        /\ \A i \in DOMAIN mappings :
              (\E k \in DOMAIN segments : Overlaps(mappings[i], segments[k]))
                  <=> i \in Range(used.list)
        /\ \A a, b \in DOMAIN used.list : a < b => used.list[a] < used.list[b]

\* C20 witness: list_used_mappings returned for a heap where one region is
\* used only because a span that starts in an earlier region reaches into
\* it, and another region overlaps the spans of two segments.
C20_Witness ==
    /\ used.returned
    /\ \E i \in Range(used.list) :
          \A k \in DOMAIN segments :
              ~InMapping(segments[k]._orig_address_, mappings[i])
    /\ \E i \in Range(used.list) :
          \E k, l \in DOMAIN segments :
              /\ k # l
              /\ Overlaps(mappings[i], segments[k])
              /\ Overlaps(mappings[i], segments[l])

\* C21 as claimed: for a heap with FrontEndHeapType 2, the union of what
\* get_user_allocations and get_free_chunks return equals the union of V,
\* the backend chunks (committed and free, headers removed) and the LFH
\* allocated chunks Aa.
C21_UnionAsClaimed ==
    dump.FrontEndHeapType = 2 =>
        \A ua \in ReturnedSets("_allocs"), fc \in ReturnedSets("_free_chunks") :
            ua \cup fc = A \cup Fb \cup Aa

\* C21, amended: for a heap with FrontEndHeapType 2, the union of what
\* get_user_allocations and get_free_chunks return equals the union of V,
\* the backend chunks (committed and free, headers removed), the LFH
\* allocated chunks Aa and the LFH free chunks Fa.
C21_UnionWithFrontFree ==
    dump.FrontEndHeapType = 2 =>
        \A ua \in ReturnedSets("_allocs"), fc \in ReturnedSets("_free_chunks") :
            ua \cup fc = A \cup Fb \cup Aa \cup Fa

\* C21 witness: both queries answered on a heap with FrontEndHeapType 2
\* that has an LFH free chunk which is neither a virtual allocation, nor a
\* backend chunk with its header removed, nor an LFH allocated chunk, next
\* to a backend allocation and an LFH allocated chunk.
C21_Witness ==
    /\ dump.FrontEndHeapType = 2
    /\ BothReturned
    /\ Fa \ (A \cup Fb \cup Aa) # {}
    /\ A # {} /\ Aa # {}

\* C26: for every FrontEndHeapType, a query that returns without raising
\* returns a set of (address, size) pairs, never None.
C26_NeverNone ==
    \A k \in DOMAIN calls : calls[k].out # "None"

\* C27: when a query failed the size check, the walker holds no result:
\* _allocs and _free_chunks are both unset, and every call on the walker,
\* before or after, of either query, ended in that error and returned no
\* set.
C27_NothingPublished ==
    (\E k \in DOMAIN calls : calls[k].out = "ValueError") =>
        /\ ~walker._allocs.some
        /\ ~walker._free_chunks.some
        /\ \A k \in DOMAIN calls :
              calls[k].out = "ValueError" /\ calls[k].val = {}

\* C27 witness: get_user_allocations failed the size check on a heap that
\* has a virtual allocation of positive size and a bad backend chunk, and a
\* later get_free_chunks failed too.
C27_Witness ==
    /\ Len(calls) > 1
    /\ calls[1].q = "_allocs" /\ calls[1].out = "ValueError"
    /\ calls[Len(calls)].q = "_free_chunks"
    /\ calls[Len(calls)].out = "ValueError"
    /\ V # {} /\ ~BadSize(V)
    /\ walked.backend = 1

\* ------------------------------------------------- claims on the heap finder

\* The lists that the list_heap_walkers calls returned.
ReturnedLists ==
    {returns[k].val : k \in {j \in DOMAIN returns : returns[j].out = "list"}}

\* C22: every list returned by list_heap_walkers, on the first call and on
\* every later call, is sorted by ascending heap address and has at most
\* one walker per memory region.
C22_SortedOnePerRegion ==
    \A l \in ReturnedLists :
        /\ \A a, b \in DOMAIN l : a < b => l[a].addr < l[b].addr
        /\ \A i \in DOMAIN mappings :
              Cardinality({a \in DOMAIN l : InMapping(l[a].addr, mappings[i])}) <= 1

\* C22 witness: a first and a later call both returned a list of two
\* walkers.
C22_Witness ==
    /\ Len(returns) > 1
    /\ \A k \in DOMAIN returns :
          returns[k].out = "list" /\ Len(returns[k].val) > 1

\* C23: every walker returned sits at the start of its region plus a
\* multiple of the page size, at a candidate that holds the heap signature
\* at the offset of the walker's layout and whose HEAP record passed the
\* validator; the validator has only been run on candidates that hold the
\* signature; and a walker is bound to the 64-bit layout only when the
\* 32-bit layout, tried first, did not validate at that address.
C23_WalkerIsValidatedHeap ==
    /\ \A l \in ReturnedLists : \A k \in DOMAIN l :
          LET w == l[k]
              m == mappings[w.mapping]
          IN  /\ InMapping(w.addr, m)
              /\ (w.addr - m.start) % PageSize = 0
              /\ <<w.addr, w.bits>> \in image.signed
              /\ <<w.addr, w.bits>> \in image.valid
              /\ w.bits = 64 =>
                     ~(<<w.addr, 32>> \in image.signed
                         /\ <<w.addr, 32>> \in image.valid)
              /\ <<w.addr, w.bits>> \in probes.validated
    /\ probes.validated \subseteq image.signed

\* C23 witness: a walker bound to the 64-bit layout was returned, one page
\* into its region, where the 32-bit layout holds the signature too but did
\* not validate.
C23_Witness ==
    \E l \in ReturnedLists : \E k \in DOMAIN l :
        /\ l[k].bits = 64
        /\ l[k].addr # mappings[l[k].mapping].start
        /\ <<l[k].addr, 32>> \in image.signed
        /\ <<l[k].addr, 32>> \in probes.validated

\* What list_used_mappings of the walker w returns, for a heap whose segment
\* walk does not fail.
UsedBy(w) ==
    LET sg == heapsegs[w.addr].list
    IN  Range(UsedFrom(mappings, 1,
                       [n \in DOMAIN sg |->
                           <<sg[n]._orig_address_, sg[n].LastValidEntry>>]))

\* C24: after list_heap_walkers completes, for every discovered walker w and
\* every region m in w.list_used_mappings(), the dictionary maps m.start to
\* w; and for every walker the dictionary maps its heap address and the
\* start of the region where it was found to that walker.
C24_DictComplete ==
    (returns # <<>> /\ returns[Len(returns)].out = "list") =>
        \A w \in Range(hfinder._heap_walkers.v) :
            LET d == hfinder._heap_walkers_dict
            IN  /\ w.addr \in DOMAIN d /\ d[w.addr] = w
                /\ mappings[w.mapping].start \in DOMAIN d
                /\ d[mappings[w.mapping].start] = w
                /\ (w.addr \in DOMAIN heapsegs /\ ~heapsegs[w.addr].fails) =>
                       \A i \in UsedBy(w) :
                           /\ mappings[i].start \in DOMAIN d
                           /\ d[mappings[i].start] = w

\* The region at index i has a heap that a scan of the region alone finds.
HasHeap(i) ==
    find_heap(mappings, i, mappings[i].start, 1, {}).out = "walker"

\* C25: a failure confined to one region or one heap skips only that region
\* or heap: every list_heap_walkers call returns a list, and the list has
\* the walker of every region in which a heap is found.
C25_FailureIsolated ==
    \A k \in DOMAIN returns :
        /\ returns[k].out = "list"
        /\ \A i \in DOMAIN mappings :
              HasHeap(i) => \E a \in DOMAIN returns[k].val :
                               returns[k].val[a].mapping = i

\* C28: a heap finder scans the regions at most once, whatever the first
\* scan found: every call after the first returns the cached list.
C28_ScanOnce == probes.scans <= 1

=============================================================================
